---- MODULE Spec2Model ----
(***************************************************************************)
(* Model of the chat backend of space-agent.                               *)
(*                                                                         *)
(*   - ChatDatabase (backend/database_handlers/sq3_handler.py): the SQLite *)
(*     tables sessions and messages and the operations on them.            *)
(*   - the FastAPI handlers of backend/app.py, which keep the sessions in  *)
(*     the process-wide dict chat_sessions.                                *)
(*                                                                         *)
(* Spec      the ChatDatabase operations, one whole call per step.         *)
(* SpecApp   the app.py handlers, one whole request per step.              *)
(* SpecReply the same with a reply generator that can fail.                *)
(* SpecConc  ChatDatabase calls of concurrent callers, one statement per   *)
(*           step, each call on its own connection.                        *)
(* SpecAppConc  app.py requests on concurrent threads, one statement per   *)
(*           step.                                                         *)
(***************************************************************************)
EXTENDS Integers, Sequences, FiniteSets, TLC

\* ------------------------------------------------------------------ bounds
\* Readings of datetime.now() range over 0..MaxTime.
MaxTime == 1
\* At most MaxRows rows are ever inserted into the messages table.
MaxRows == 2
\* A session of chat_sessions holds at most MaxHistory messages.
MaxHistory == 4

\* ------------------------------------------------------------------ inputs
SessionIds == {"s1", "s2"}
Roles == {"user", "assistant"}
\* content of a messages row: ChatDatabase stores it and never looks at it
Contents == {"hi"}
\* chat_message.message of a request to app.py
UserTexts == {"hi", "x"}

VARIABLES
    sessions,       \* table sessions: set of rows (session_id, created_at, updated_at)
    messages,       \* table messages: set of rows (id, session_id, role, content, timestamp)
    seq,            \* sqlite_sequence of messages: the largest id AUTOINCREMENT has given
    now,            \* the last reading of the wall clock, datetime.now()
    last,           \* the most recent completed call: operation, argument, outcome, value
    chat_sessions,  \* app.py: the dict chat_sessions, session_id -> {created_at, messages}
    pc,             \* per concurrent caller: the statement its call or request executes next
    loc,            \* per concurrent caller: the arguments, locals and outcome of its call or request
    lock,           \* the caller whose connection holds SQLite's write lock, or NoCaller
    txn             \* per concurrent caller: the uncommitted database of its open transaction

dbVars == <<sessions, messages, seq>>
concVars == <<pc, loc, lock, txn>>
vars == <<sessions, messages, seq, now, last, chat_sessions, pc, loc, lock, txn>>

\* Concurrent callers of one ChatDatabase, each call on a connection of its own.
\* Their calls race on one session.
Callers == {"c1", "c2"}
ConcSessionIds == {"s1"}
NoCaller == "none"
NoTxn == <<>>
NoLocal == [op |-> "none", sid |-> "", role |-> "", content |-> "", timestamp |-> 0,
            id |-> 0, status |-> "", ret |-> <<>>]

NoCall == [op |-> "none", sid |-> "", status |-> "", ret |-> <<>>, rows |-> 0]

\* A call returns (status "ok", ret the value) or raises (status the exception).
Return(op, sid, status, ret) ==
    last' = [op |-> op, sid |-> sid, status |-> status, ret |-> ret, rows |-> 0]

\* The same, for a call whose first DELETE statement removed rows message rows
\* (cursor.rowcount after that statement).
ReturnDeleted(op, sid, ret, rows) ==
    last' = [op |-> op, sid |-> sid, status |-> "ok", ret |-> ret, rows |-> rows]

\* datetime.now(): a reading of the wall clock. Readings are taken not to run
\* backwards, and two readings may be equal (the clock's resolution is finite).
\* sqlite3 stores a datetime as its ISO text and compares the texts, which
\* orders them as the readings are ordered.
datetime_now == now..MaxTime

\* _get_connection opens the connection without PRAGMA foreign_keys = ON, and
\* SQLite leaves foreign-key enforcement off unless that pragma is set: the
\* FOREIGN KEY ... ON DELETE CASCADE clause of messages is not enforced.
foreign_keys == FALSE

\* ------------------------------------------------------------ SQL helpers
\* WHERE session_id = ?
SessionRows(session_id) == {s \in sessions : s.session_id = session_id}
MessageRows(session_id) == {m \in messages : m.session_id = session_id}

\* The orders in which a SELECT may return the rows of S.
Orderings(S) ==
    {q \in [1..Cardinality(S) -> S] : \A i, j \in 1..Cardinality(S) : i # j => q[i] # q[j]}

\* ORDER BY timestamp ASC: the order of rows with equal timestamps is undefined.
OrderByTimestampAsc(S) ==
    {q \in Orderings(S) : \A i, j \in DOMAIN q : i < j => q[i].timestamp <= q[j].timestamp}

\* ORDER BY updated_at DESC
OrderByUpdatedAtDesc(S) ==
    {q \in Orderings(S) : \A i, j \in DOMAIN q : i < j => q[i].updated_at >= q[j].updated_at}

\* dict(row) of SELECT role, content, timestamp
MessageDict(m) == [role |-> m.role, content |-> m.content, timestamp |-> m.timestamp]

\* The results get_messages can return in the current state.
get_messages_results(session_id) ==
    {[i \in DOMAIN q |-> MessageDict(q[i])] : q \in OrderByTimestampAsc(MessageRows(session_id))}

\* SELECT 1 FROM sessions WHERE session_id = ? ... fetchone() is not None
session_exists_result(session_id) == SessionRows(session_id) # {}

\* sessions s LEFT JOIN messages m ON s.session_id = m.session_id: a session
\* without messages yields one joined row whose m.id is NULL (0 here; ids start at 1).
LeftJoinIds(s) ==
    IF MessageRows(s.session_id) = {} THEN {0} ELSE {m.id : m \in MessageRows(s.session_id)}

\* Variant: COUNT(*) counts the NULL row of the LEFT JOIN too.
CountStar(s) == Cardinality(LeftJoinIds(s))

\* COUNT(m.id): the joined rows whose m.id is not NULL.
CountMessageId(s) == Cardinality({i \in LeftJoinIds(s) : i # 0})

SessionSummary(s) ==
    [session_id |-> s.session_id, created_at |-> s.created_at,
     updated_at |-> s.updated_at, message_count |-> CountMessageId(s)]

list_sessions_results ==
    {[i \in DOMAIN q |-> SessionSummary(q[i])] : q \in OrderByUpdatedAtDesc(sessions)}

\* ---------------------------------------------------- ChatDatabase, atomic
Init ==
    /\ sessions = {}
    /\ messages = {}
    /\ seq = 0
    /\ now = 0
    /\ last = NoCall
    /\ chat_sessions = <<>>
    /\ pc = [c \in Callers |-> "idle"]
    /\ loc = [c \in Callers |-> NoLocal]
    /\ lock = NoCaller
    /\ txn = [c \in Callers |-> NoTxn]

\* Variant: INSERT OR REPLACE INTO sessions, which replaces the row of an
\* existing session_id instead of raising.
create_session_replace(session_id) ==
    \E created_at \in datetime_now :
        /\ now' = created_at
        /\ sessions' = (sessions \ SessionRows(session_id)) \cup
                {[session_id |-> session_id, created_at |-> created_at,
                  updated_at |-> created_at]}
        /\ UNCHANGED <<messages, seq>>
        /\ Return("create_session", session_id, "ok",
                  [session_id |-> session_id, created_at |-> created_at,
                   updated_at |-> created_at])
        /\ UNCHANGED <<chat_sessions, concVars>>

create_session(session_id) ==
    \E created_at \in datetime_now :
        /\ now' = created_at
        /\ IF SessionRows(session_id) # {}
           THEN \* PRIMARY KEY violation: sqlite3.IntegrityError, rollback, re-raise
                /\ UNCHANGED <<sessions, messages, seq>>
                /\ Return("create_session", session_id, "IntegrityError", <<>>)
           ELSE /\ sessions' = sessions \cup
                        {[session_id |-> session_id, created_at |-> created_at,
                          updated_at |-> created_at]}
                /\ UNCHANGED <<messages, seq>>
                /\ Return("create_session", session_id, "ok",
                          [session_id |-> session_id, created_at |-> created_at,
                           updated_at |-> created_at])
        /\ UNCHANGED <<chat_sessions, concVars>>

session_exists(session_id) ==
    /\ Return("session_exists", session_id, "ok", session_exists_result(session_id))
    /\ UNCHANGED <<sessions, messages, seq, now, chat_sessions, concVars>>

\* INSERT INTO messages: AUTOINCREMENT gives the row the id seq + 1.
InsertMessage(msgs, id, session_id, role, content, timestamp) ==
    msgs \cup {[id |-> id, session_id |-> session_id, role |-> role,
                content |-> content, timestamp |-> timestamp]}

\* Variant: UPDATE sessions SET updated_at = ? without the WHERE clause.
UpdateSession_all(sess, session_id, timestamp) ==
    {[s EXCEPT !.updated_at = timestamp] : s \in sess}

\* UPDATE sessions SET updated_at = ? WHERE session_id = ?
UpdateSession(sess, session_id, timestamp) ==
    {IF s.session_id = session_id THEN [s EXCEPT !.updated_at = timestamp] ELSE s : s \in sess}

add_message(session_id, role, content) ==
    /\ seq < MaxRows
    /\ \E timestamp \in datetime_now :
        /\ now' = timestamp
        /\ IF foreign_keys /\ SessionRows(session_id) = {}
           THEN \* FOREIGN KEY violation: sqlite3.IntegrityError, rollback, re-raise
                /\ UNCHANGED <<sessions, messages, seq>>
                /\ Return("add_message", session_id, "IntegrityError", <<>>)
           ELSE /\ messages' = InsertMessage(messages, seq + 1, session_id, role, content, timestamp)
                /\ seq' = seq + 1
                /\ sessions' = UpdateSession(sessions, session_id, timestamp)
                /\ Return("add_message", session_id, "ok",
                          [session_id |-> session_id, role |-> role,
                           content |-> content, timestamp |-> timestamp])
        /\ UNCHANGED <<chat_sessions, concVars>>

get_messages(session_id) ==
    /\ \E result \in get_messages_results(session_id) :
           Return("get_messages", session_id, "ok", result)
    /\ UNCHANGED <<sessions, messages, seq, now, chat_sessions, concVars>>

\* Variant: no DELETE FROM messages, the rows left to ON DELETE CASCADE.
DeleteMessages_cascade(msgs, session_id) == msgs

\* DELETE FROM messages WHERE session_id = ?
DeleteMessages(msgs, session_id) == {m \in msgs : m.session_id # session_id}

\* Variant: the DELETE FROM sessions statement matches no row.
DeleteSessionRow_none(sess, session_id) == sess

\* DELETE FROM sessions WHERE session_id = ?
DeleteSessionRow(sess, session_id) == {s \in sess : s.session_id # session_id}

delete_session(session_id) ==
    /\ messages' = DeleteMessages(messages, session_id)
    /\ sessions' = DeleteSessionRow(sessions, session_id)
    \* deleted = cursor.rowcount > 0, the row count of the second DELETE
    /\ ReturnDeleted("delete_session", session_id,
                     Cardinality(sessions) - Cardinality(sessions') > 0,
                     Cardinality(messages) - Cardinality(messages'))
    /\ UNCHANGED <<seq, now, chat_sessions, concVars>>

list_sessions ==
    /\ \E result \in list_sessions_results : Return("list_sessions", "", "ok", result)
    /\ UNCHANGED <<sessions, messages, seq, now, chat_sessions, concVars>>

get_session(session_id) ==
    /\ IF SessionRows(session_id) = {}
       THEN Return("get_session", session_id, "ok", <<>>)
       ELSE \E row \in SessionRows(session_id) : Return("get_session", session_id, "ok", row)
    /\ UNCHANGED <<sessions, messages, seq, now, chat_sessions, concVars>>

Next ==
    \/ \E s \in SessionIds : create_session(s)
    \/ \E s \in SessionIds : session_exists(s)
    \/ \E s \in SessionIds, r \in Roles, c \in Contents : add_message(s, r, c)
    \/ \E s \in SessionIds : get_messages(s)
    \/ \E s \in SessionIds : delete_session(s)
    \/ list_sessions
    \/ \E s \in SessionIds : get_session(s)

Spec == Init /\ [][Next]_vars

\* ------------------------------------------------------- app.py, atomic
\* uuid.uuid4(): a random identifier: any value, one already in use included.
uuid4 == SessionIds

\* assistant_response = f"Echo: {chat_message.message}"
Echo(message) == "Echo: " \o message

\* Variant: the reply is stored before the user message.
AppendExchange_replyFirst(history, message, reply, t1, t2) ==
    history \o <<[role |-> "assistant", content |-> reply, timestamp |-> t1],
                 [role |-> "user", content |-> message, timestamp |-> t2]>>

\* session["messages"].append(user message); ...; session["messages"].append(reply)
AppendExchange(history, message, reply, t1, t2) ==
    history \o <<[role |-> "user", content |-> message, timestamp |-> t1],
                 [role |-> "assistant", content |-> reply, timestamp |-> t2]>>

\* del chat_sessions[session_id]
DelKey(d, k) == [x \in DOMAIN d \ {k} |-> d[x]]

\* chat_sessions[session_id] = value
SetKey(d, k, value) == [x \in DOMAIN d \cup {k} |-> IF x = k THEN value ELSE d[x]]

\* chat_sessions[session_id]["messages"] as get_chat_history returns it
get_chat_history_result(session_id) == chat_sessions[session_id].messages

start_chat ==
    \E session_id \in uuid4, created_at \in datetime_now :
        /\ now' = created_at
        /\ chat_sessions' = SetKey(chat_sessions, session_id,
                                   [created_at |-> created_at, messages |-> <<>>])
        /\ Return("start_chat", session_id, "ok",
                  [session_id |-> session_id, created_at |-> created_at])
        /\ UNCHANGED <<dbVars, concVars>>

chat_with_space(session_id, message) ==
    IF session_id \notin DOMAIN chat_sessions
    THEN /\ Return("chat_with_space", session_id, "404", <<>>)
         /\ UNCHANGED <<dbVars, now, chat_sessions, concVars>>
    ELSE /\ Len(chat_sessions[session_id].messages) + 2 <= MaxHistory
         /\ \E t1 \in datetime_now :
            \E t2 \in t1..MaxTime :
            \E t3 \in t2..MaxTime :
                /\ now' = t3
                /\ chat_sessions' =
                       [chat_sessions EXCEPT ![session_id].messages =
                           AppendExchange(@, message, Echo(message), t1, t2)]
                /\ Return("chat_with_space", session_id, "ok",
                          [session_id |-> session_id, user_message |-> message,
                           assistant_response |-> Echo(message), timestamp |-> t3])
         /\ UNCHANGED <<dbVars, concVars>>

get_chat_history(session_id) ==
    /\ IF session_id \notin DOMAIN chat_sessions
       THEN Return("get_chat_history", session_id, "404", <<>>)
       ELSE Return("get_chat_history", session_id, "ok",
                   [session_id |-> session_id,
                    messages |-> get_chat_history_result(session_id)])
    /\ UNCHANGED <<dbVars, now, chat_sessions, concVars>>

\* Variant: chat_sessions.pop(session_id, None), a missing session reported as deleted.
app_delete_session_pop(session_id) ==
    /\ chat_sessions' = DelKey(chat_sessions, session_id)
    /\ Return("delete_session", session_id, "ok", <<>>)
    /\ UNCHANGED <<dbVars, now, concVars>>

\* delete_session of app.py
app_delete_session(session_id) ==
    /\ IF session_id \notin DOMAIN chat_sessions
       THEN /\ Return("delete_session", session_id, "404", <<>>)
            /\ UNCHANGED chat_sessions
       ELSE /\ chat_sessions' = DelKey(chat_sessions, session_id)
            /\ Return("delete_session", session_id, "ok", <<>>)
    /\ UNCHANGED <<dbVars, now, concVars>>

NextApp ==
    \/ start_chat
    \/ \E s \in SessionIds, m \in UserTexts : chat_with_space(s, m)
    \/ \E s \in SessionIds : get_chat_history(s)
    \/ \E s \in SessionIds : app_delete_session(s)

SpecApp == Init /\ [][NextApp]_vars

\* ------------------------------------- app.py with a reply generator, atomic
\* chat_with_space with the call app.py reserves for the language model
\* (assistant_response = call_llm_api(messages=session["messages"], ...)) in
\* the place of the echo. The generator is given the history, the user message
\* at its end, and either returns a text or raises; the handler does not catch
\* the exception, so the request ends with it.
generateReply(history) ==
    {[failed |-> FALSE,
      text |-> IF history = <<>> THEN "" ELSE Echo(history[Len(history)].content)],
     [failed |-> TRUE, text |-> ""]}

\* Variant: the user message is stored only once the reply is there.
AppendUser_deferred(history, message, t) == history

\* session["messages"].append({"role": "user", ...}), before the reply is made
AppendUser(history, message, t) ==
    Append(history, [role |-> "user", content |-> message, timestamp |-> t])

\* session["messages"].append({"role": "assistant", ...})
AppendReply(history, reply, t) ==
    Append(history, [role |-> "assistant", content |-> reply, timestamp |-> t])

chat_with_space_llm(session_id, message) ==
    IF session_id \notin DOMAIN chat_sessions
    THEN /\ Return("chat_with_space", session_id, "404", <<>>)
         /\ UNCHANGED <<dbVars, now, chat_sessions, concVars>>
    ELSE /\ \E t1 \in datetime_now :
            LET stored == AppendUser(chat_sessions[session_id].messages, message, t1) IN
            \E reply \in generateReply(stored) :
                IF reply.failed
                THEN /\ Len(chat_sessions[session_id].messages) + 1 <= MaxHistory
                     /\ now' = t1
                     /\ chat_sessions' = [chat_sessions EXCEPT ![session_id].messages = stored]
                     /\ Return("chat_with_space", session_id, "ReplyGenerationFailed", <<>>)
                ELSE /\ Len(chat_sessions[session_id].messages) + 2 <= MaxHistory
                     /\ \E t2 \in t1..MaxTime :
                        \E t3 \in t2..MaxTime :
                            /\ now' = t3
                            /\ chat_sessions' =
                                   [chat_sessions EXCEPT ![session_id].messages =
                                       AppendReply(stored, reply.text, t2)]
                            /\ Return("chat_with_space", session_id, "ok",
                                      [session_id |-> session_id, user_message |-> message,
                                       assistant_response |-> reply.text, timestamp |-> t3])
         /\ UNCHANGED <<dbVars, concVars>>

\* The requests are made on one session: uuid4 gives its identifier each time.
NextReply ==
    \/ start_chat /\ last'.sid \in ConcSessionIds
    \/ \E s \in ConcSessionIds, m \in UserTexts : chat_with_space_llm(s, m)
    \/ \E s \in ConcSessionIds : get_chat_history(s)
    \/ \E s \in ConcSessionIds : app_delete_session(s)

SpecReply == Init /\ [][NextReply]_vars

\* ------------------------------------------- ChatDatabase, concurrent calls
\* Each call opens its own connection (_get_connection). The sqlite3 module
\* begins a transaction before the first INSERT, UPDATE or DELETE of a call;
\* that statement takes the database's write lock, which only one connection
\* holds at a time, and a connection that finds it taken waits for it (the busy
\* handler of sqlite3.connect; the wait is taken to end before its timeout, as
\* a transaction here is a few statements long). The statements of a
\* transaction change the
\* connection's own copy; conn.commit() makes them the database and releases
\* the lock. Reads see the committed database.

\* Variant: no write lock, a transaction starts whatever other transaction is open.
LockFree_always == TRUE

\* The write lock can be taken.
LockFree == lock = NoCaller

\* The implicit BEGIN and the write lock: the transaction of caller c starts
\* from the committed database.
Begin(c) ==
    /\ LockFree
    /\ lock' = c

Committed == [sessions |-> sessions, messages |-> messages, seq |-> seq]

\* conn.commit(): the transaction of c becomes the committed database.
Commit(c) ==
    /\ sessions' = txn[c].sessions
    /\ messages' = txn[c].messages
    /\ seq' = txn[c].seq
    /\ txn' = [txn EXCEPT ![c] = NoTxn]
    /\ lock' = NoCaller

\* The calls started and not yet past their INSERT INTO messages.
PendingInserts == Cardinality({c \in Callers : pc[c] = "am_insert"})

\* add_message, lines 142-144: the connection, and timestamp = datetime.now()
am_begin(c, session_id, role, content) ==
    /\ pc[c] = "idle"
    /\ seq + PendingInserts < MaxRows
    /\ \E timestamp \in datetime_now :
        /\ now' = timestamp
        /\ loc' = [loc EXCEPT ![c] =
                      [op |-> "add_message", sid |-> session_id, role |-> role,
                       content |-> content, timestamp |-> timestamp, id |-> 0,
                       status |-> "", ret |-> <<>>]]
    /\ pc' = [pc EXCEPT ![c] = "am_insert"]
    /\ UNCHANGED <<dbVars, last, chat_sessions, lock, txn>>

\* Variant: the connection commits each statement by itself (autocommit), so
\* the INSERT is in the database before the UPDATE has run.
am_insert_autocommit(c) ==
    /\ pc[c] = "am_insert"
    /\ Begin(c)
    /\ messages' = InsertMessage(messages, seq + 1, loc[c].sid, loc[c].role,
                                 loc[c].content, loc[c].timestamp)
    /\ seq' = seq + 1
    /\ txn' = [txn EXCEPT ![c] = [sessions |-> sessions, messages |-> messages', seq |-> seq']]
    /\ loc' = [loc EXCEPT ![c].id = seq + 1]
    /\ pc' = [pc EXCEPT ![c] = "am_update"]
    /\ UNCHANGED <<sessions, now, last, chat_sessions>>

\* add_message, lines 148-154: INSERT INTO messages
am_insert(c) ==
    /\ pc[c] = "am_insert"
    /\ Begin(c)
    /\ IF foreign_keys /\ SessionRows(loc[c].sid) = {}
       THEN \* FOREIGN KEY violation: rollback, re-raise
            /\ lock' = NoCaller
            /\ loc' = [loc EXCEPT ![c].status = "IntegrityError"]
            /\ pc' = [pc EXCEPT ![c] = "idle"]
            /\ UNCHANGED txn
       ELSE /\ txn' = [txn EXCEPT ![c] =
                          [Committed EXCEPT
                              !.messages = InsertMessage(messages, seq + 1, loc[c].sid,
                                               loc[c].role, loc[c].content, loc[c].timestamp),
                              !.seq = seq + 1]]
            /\ loc' = [loc EXCEPT ![c].id = seq + 1]
            /\ pc' = [pc EXCEPT ![c] = "am_update"]
    /\ UNCHANGED <<dbVars, now, last, chat_sessions>>

\* add_message, lines 157-160: UPDATE sessions SET updated_at
am_update(c) ==
    /\ pc[c] = "am_update"
    /\ txn' = [txn EXCEPT ![c].sessions = UpdateSession(@, loc[c].sid, loc[c].timestamp)]
    /\ pc' = [pc EXCEPT ![c] = "am_commit"]
    /\ UNCHANGED <<dbVars, now, last, chat_sessions, loc, lock>>

\* add_message, lines 162-169: conn.commit() and the returned dict
am_commit(c) ==
    /\ pc[c] = "am_commit"
    /\ Commit(c)
    /\ loc' = [loc EXCEPT ![c].status = "ok",
                          ![c].ret = [session_id |-> loc[c].sid, role |-> loc[c].role,
                                      content |-> loc[c].content,
                                      timestamp |-> loc[c].timestamp]]
    /\ pc' = [pc EXCEPT ![c] = "idle"]
    /\ UNCHANGED <<now, last, chat_sessions>>

\* create_session, lines 82-84: the connection, and created_at = datetime.now()
cs_begin(c, session_id) ==
    /\ pc[c] = "idle"
    /\ \E created_at \in datetime_now :
        /\ now' = created_at
        /\ loc' = [loc EXCEPT ![c] =
                      [NoLocal EXCEPT !.op = "create_session", !.sid = session_id,
                                      !.timestamp = created_at]]
    /\ pc' = [pc EXCEPT ![c] = "cs_insert"]
    /\ UNCHANGED <<dbVars, last, chat_sessions, lock, txn>>

\* create_session, lines 87-93: INSERT INTO sessions
cs_insert(c) ==
    /\ pc[c] = "cs_insert"
    /\ Begin(c)
    /\ IF SessionRows(loc[c].sid) # {}
       THEN \* PRIMARY KEY violation: rollback, re-raise
            /\ lock' = NoCaller
            /\ loc' = [loc EXCEPT ![c].status = "IntegrityError"]
            /\ pc' = [pc EXCEPT ![c] = "idle"]
            /\ UNCHANGED txn
       ELSE /\ txn' = [txn EXCEPT ![c] =
                          [Committed EXCEPT
                              !.sessions = sessions \cup
                                  {[session_id |-> loc[c].sid,
                                    created_at |-> loc[c].timestamp,
                                    updated_at |-> loc[c].timestamp]}]]
            /\ pc' = [pc EXCEPT ![c] = "cs_commit"]
            /\ UNCHANGED loc
    /\ UNCHANGED <<dbVars, now, last, chat_sessions>>

\* create_session, lines 94-100: conn.commit() and the returned dict
cs_commit(c) ==
    /\ pc[c] = "cs_commit"
    /\ Commit(c)
    /\ loc' = [loc EXCEPT ![c].status = "ok",
                          ![c].ret = [session_id |-> loc[c].sid,
                                      created_at |-> loc[c].timestamp,
                                      updated_at |-> loc[c].timestamp]]
    /\ pc' = [pc EXCEPT ![c] = "idle"]
    /\ UNCHANGED <<now, last, chat_sessions>>

\* delete_session, lines 214-222: the connection, and DELETE FROM messages
ds_messages(c, session_id) ==
    /\ pc[c] = "idle"
    /\ Begin(c)
    /\ txn' = [txn EXCEPT ![c] =
                  [Committed EXCEPT !.messages = DeleteMessages(messages, session_id)]]
    /\ loc' = [loc EXCEPT ![c] = [NoLocal EXCEPT !.op = "delete_session", !.sid = session_id]]
    /\ pc' = [pc EXCEPT ![c] = "ds_session"]
    /\ UNCHANGED <<dbVars, now, last, chat_sessions>>

\* delete_session, lines 225-230: DELETE FROM sessions, deleted = cursor.rowcount > 0
ds_session(c) ==
    /\ pc[c] = "ds_session"
    /\ txn' = [txn EXCEPT ![c].sessions = DeleteSessionRow(@, loc[c].sid)]
    /\ loc' = [loc EXCEPT ![c].ret =
                  Cardinality(txn[c].sessions) - Cardinality(txn'[c].sessions) > 0]
    /\ pc' = [pc EXCEPT ![c] = "ds_commit"]
    /\ UNCHANGED <<dbVars, now, last, chat_sessions, lock>>

\* delete_session, lines 231-232: conn.commit(), return deleted
ds_commit(c) ==
    /\ pc[c] = "ds_commit"
    /\ Commit(c)
    /\ loc' = [loc EXCEPT ![c].status = "ok"]
    /\ pc' = [pc EXCEPT ![c] = "idle"]
    /\ UNCHANGED <<now, last, chat_sessions>>

\* get_messages by a concurrent caller: one SELECT on the committed database
gm_select(c, session_id) ==
    /\ pc[c] = "idle"
    /\ \E result \in get_messages_results(session_id) :
           loc' = [loc EXCEPT ![c] =
                      [NoLocal EXCEPT !.op = "get_messages", !.sid = session_id,
                                      !.status = "ok", !.ret = result]]
    /\ UNCHANGED <<dbVars, now, last, chat_sessions, pc, lock, txn>>

NextConc ==
    \/ \E c \in Callers, s \in ConcSessionIds, r \in Roles, m \in Contents : am_begin(c, s, r, m)
    \/ \E c \in Callers : am_insert(c)
    \/ \E c \in Callers : am_update(c)
    \/ \E c \in Callers : am_commit(c)
    \/ \E c \in Callers, s \in ConcSessionIds : cs_begin(c, s)
    \/ \E c \in Callers : cs_insert(c)
    \/ \E c \in Callers : cs_commit(c)
    \/ \E c \in Callers, s \in ConcSessionIds : ds_messages(c, s)
    \/ \E c \in Callers : ds_session(c)
    \/ \E c \in Callers : ds_commit(c)
    \/ \E c \in Callers, s \in ConcSessionIds : gm_select(c, s)

SpecConc == Init /\ [][NextConc]_vars

\* ------------------------------------------------ app.py, concurrent requests
\* The handlers are plain def functions: FastAPI runs each request on a thread
\* of its pool, so requests run concurrently and a thread switch can fall
\* between any two statements of a handler. A step is one statement on
\* chat_sessions. Callers are the request threads here, pc[c] the statement
\* thread c executes next and loc[c] its request, locals and outcome. An
\* exception other than HTTPException is not caught by a handler: the request
\* ends with it (status "KeyError"; FastAPI answers 500).
\*
\* The local variable session of chat_with_space refers to the dict object
\* the handler found in chat_sessions: "held" while chat_sessions still maps
\* the session_id to that object, "detached" once another request has deleted
\* or replaced the entry. Appends to a detached object succeed and are seen by
\* no later request.
AppLocal(op, sid, message, session, status) ==
    [op |-> op, sid |-> sid, message |-> message, session |-> session, status |-> status]

\* The locals of the other requests after chat_sessions[sid] was deleted or replaced.
Detach(c, sid) ==
    [d \in Callers |->
        IF d # c /\ pc[d] \in {"cw_user", "cw_reply"} /\ loc[d].sid = sid
        THEN [loc[d] EXCEPT !.session = "detached"]
        ELSE loc[d]]

\* The appends that the chat_with_space requests under way have still to make.
PendingAppends ==
    LET n(c) == IF pc[c] \in {"cw_get", "cw_user"} THEN 2
                ELSE IF pc[c] = "cw_reply" THEN 1 ELSE 0
    IN  n("c1") + n("c2")

\* start_chat: session_id = str(uuid.uuid4()); chat_sessions[session_id] = {...}
sc_store(c) ==
    /\ pc[c] = "idle"
    /\ \E session_id \in uuid4 \cap ConcSessionIds, created_at \in datetime_now :
        /\ now' = created_at
        /\ chat_sessions' = SetKey(chat_sessions, session_id,
                                   [created_at |-> created_at, messages |-> <<>>])
        /\ loc' = [Detach(c, session_id) EXCEPT
                      ![c] = AppLocal("start_chat", session_id, "", "", "")]
    /\ pc' = [pc EXCEPT ![c] = "sc_return"]
    /\ UNCHANGED <<dbVars, last, lock, txn>>

\* start_chat: return StartChatResponse(..., created_at=chat_sessions[session_id]["created_at"])
sc_return(c) ==
    /\ pc[c] = "sc_return"
    /\ loc' = [loc EXCEPT ![c].status =
                  IF loc[c].sid \in DOMAIN chat_sessions THEN "ok" ELSE "KeyError"]
    /\ pc' = [pc EXCEPT ![c] = "idle"]
    /\ UNCHANGED <<dbVars, now, last, chat_sessions, lock, txn>>

\* chat_with_space: if session_id not in chat_sessions: raise HTTPException(404)
cw_check(c, session_id, message) ==
    /\ pc[c] = "idle"
    /\ IF session_id \notin DOMAIN chat_sessions
       THEN /\ loc' = [loc EXCEPT ![c] =
                          AppLocal("chat_with_space", session_id, message, "", "404")]
            /\ UNCHANGED pc
       ELSE /\ Len(chat_sessions[session_id].messages) + PendingAppends + 2 <= MaxHistory
            /\ loc' = [loc EXCEPT ![c] =
                          AppLocal("chat_with_space", session_id, message, "", "")]
            /\ pc' = [pc EXCEPT ![c] = "cw_get"]
    /\ UNCHANGED <<dbVars, now, last, chat_sessions, lock, txn>>

\* chat_with_space: session = chat_sessions[session_id]
cw_get(c) ==
    /\ pc[c] = "cw_get"
    /\ IF loc[c].sid \in DOMAIN chat_sessions
       THEN /\ loc' = [loc EXCEPT ![c].session = "held"]
            /\ pc' = [pc EXCEPT ![c] = "cw_user"]
       ELSE /\ loc' = [loc EXCEPT ![c].status = "KeyError"]
            /\ pc' = [pc EXCEPT ![c] = "idle"]
    /\ UNCHANGED <<dbVars, now, last, chat_sessions, lock, txn>>

\* chat_with_space: session["messages"].append({"role": "user", ...})
cw_user(c) ==
    /\ pc[c] = "cw_user"
    /\ \E t \in datetime_now :
        /\ now' = t
        /\ IF loc[c].session = "held"
           THEN chat_sessions' = [chat_sessions EXCEPT ![loc[c].sid].messages =
                                     AppendUser(@, loc[c].message, t)]
           ELSE UNCHANGED chat_sessions
    /\ pc' = [pc EXCEPT ![c] = "cw_reply"]
    /\ UNCHANGED <<dbVars, last, loc, lock, txn>>

\* chat_with_space: assistant_response = f"Echo: ..."; session["messages"].append(
\* {"role": "assistant", ...}); return ChatResponse(..., timestamp=datetime.now())
cw_reply(c) ==
    /\ pc[c] = "cw_reply"
    /\ \E t2 \in datetime_now :
       \E t3 \in t2..MaxTime :
        /\ now' = t3
        /\ IF loc[c].session = "held"
           THEN chat_sessions' = [chat_sessions EXCEPT ![loc[c].sid].messages =
                                     AppendReply(@, Echo(loc[c].message), t2)]
           ELSE UNCHANGED chat_sessions
    /\ loc' = [loc EXCEPT ![c].status = "ok"]
    /\ pc' = [pc EXCEPT ![c] = "idle"]
    /\ UNCHANGED <<dbVars, last, lock, txn>>

\* get_chat_history: if session_id not in chat_sessions: raise HTTPException(404)
gh_check(c, session_id) ==
    /\ pc[c] = "idle"
    /\ IF session_id \notin DOMAIN chat_sessions
       THEN /\ loc' = [loc EXCEPT ![c] = AppLocal("get_chat_history", session_id, "", "", "404")]
            /\ UNCHANGED pc
       ELSE /\ loc' = [loc EXCEPT ![c] = AppLocal("get_chat_history", session_id, "", "", "")]
            /\ pc' = [pc EXCEPT ![c] = "gh_read"]
    /\ UNCHANGED <<dbVars, now, last, chat_sessions, lock, txn>>

\* get_chat_history: return ChatHistory(..., messages=chat_sessions[session_id]["messages"])
gh_read(c) ==
    /\ pc[c] = "gh_read"
    /\ loc' = [loc EXCEPT ![c].status =
                  IF loc[c].sid \in DOMAIN chat_sessions THEN "ok" ELSE "KeyError"]
    /\ pc' = [pc EXCEPT ![c] = "idle"]
    /\ UNCHANGED <<dbVars, now, last, chat_sessions, lock, txn>>

\* delete_session: if session_id not in chat_sessions: raise HTTPException(404)
dl_check(c, session_id) ==
    /\ pc[c] = "idle"
    /\ IF session_id \notin DOMAIN chat_sessions
       THEN /\ loc' = [loc EXCEPT ![c] = AppLocal("delete_session", session_id, "", "", "404")]
            /\ UNCHANGED pc
       ELSE /\ loc' = [loc EXCEPT ![c] = AppLocal("delete_session", session_id, "", "", "")]
            /\ pc' = [pc EXCEPT ![c] = "dl_del"]
    /\ UNCHANGED <<dbVars, now, last, chat_sessions, lock, txn>>

\* delete_session: del chat_sessions[session_id]; return {"message": ...}
dl_del(c) ==
    /\ pc[c] = "dl_del"
    /\ IF loc[c].sid \in DOMAIN chat_sessions
       THEN /\ chat_sessions' = DelKey(chat_sessions, loc[c].sid)
            /\ loc' = [Detach(c, loc[c].sid) EXCEPT ![c].status = "ok"]
       ELSE /\ UNCHANGED chat_sessions
            /\ loc' = [loc EXCEPT ![c].status = "KeyError"]
    /\ pc' = [pc EXCEPT ![c] = "idle"]
    /\ UNCHANGED <<dbVars, now, last, lock, txn>>

NextAppConc ==
    \/ \E c \in Callers : sc_store(c)
    \/ \E c \in Callers : sc_return(c)
    \/ \E c \in Callers, s \in ConcSessionIds, m \in UserTexts : cw_check(c, s, m)
    \/ \E c \in Callers : cw_get(c)
    \/ \E c \in Callers : cw_user(c)
    \/ \E c \in Callers : cw_reply(c)
    \/ \E c \in Callers, s \in ConcSessionIds : gh_check(c, s)
    \/ \E c \in Callers : gh_read(c)
    \/ \E c \in Callers, s \in ConcSessionIds : dl_check(c, s)
    \/ \E c \in Callers : dl_del(c)

SpecAppConc == Init /\ [][NextAppConc]_vars

\* ================================================================ claims
\* The messages of a session in the order of the add_message calls: in Spec a
\* call is one step and AUTOINCREMENT numbers the rows in call order.
InCallOrder(session_id) ==
    {[i \in DOMAIN q |-> MessageDict(q[i])] :
        q \in {o \in Orderings(MessageRows(session_id)) :
                  \A i, j \in DOMAIN o : i < j => o[i].id < o[j].id}}

\* C1: add_message for a session_id without a sessions row fails, and the
\* messages table is left as it was.
C1_MissingSessionRejected ==
    [][(last'.op = "add_message" /\ SessionRows(last'.sid) = {})
          => (last'.status # "ok" /\ messages' = messages)]_vars

\* C2: for an existing session, get_messages returns one result only: the
\* messages of the add_message calls made on it, in the order of the calls.
C2_CallOrder ==
    \A s \in SessionIds :
        session_exists_result(s) => get_messages_results(s) = InCallOrder(s)

\* C3: chat_with_space on an existing session appends the user message and then
\* the generated reply, and get_chat_history returns the old history with
\* these two at its end.
C3_PostAppendsExchange ==
    [][\A s \in SessionIds :
        (last'.op = "chat_with_space" /\ last'.sid = s /\ last'.status = "ok")
          => LET old == chat_sessions[s].messages
                 new == get_chat_history_result(s)'
                 n == Len(old)
             IN /\ Len(new) = n + 2
                /\ SubSeq(new, 1, n) = old
                /\ new[n + 1].role = "user"
                /\ new[n + 1].content = last'.ret.user_message
                /\ new[n + 2].role = "assistant"
                /\ new[n + 2].content = last'.ret.assistant_response]_vars

\* C3 witness: a second exchange has been appended to a session's history.
C3_Witness ==
    /\ last.op = "chat_with_space"
    /\ last.status = "ok"
    /\ Len(get_chat_history_result(last.sid)) = 4

\* C4: chat_with_space, get_chat_history and delete_session of app.py answer
\* 404 for a session id that is not in chat_sessions and change no session.
C4_MissingSessionIs404 ==
    [][(/\ last'.op \in {"chat_with_space", "get_chat_history", "delete_session"}
        /\ last'.sid \notin DOMAIN chat_sessions)
          => (last'.status = "404" /\ chat_sessions' = chat_sessions)]_vars

\* C4 witness: a request was answered 404 while another session with messages exists.
C4_Witness ==
    /\ last.status = "404"
    /\ \E s \in DOMAIN chat_sessions : Len(chat_sessions[s].messages) > 0

\* C5: when delete_session removed an existing session and create_session makes
\* a session of the same id next, get_messages of that id returns the empty list.
C5_NoGhostMessages ==
    [][(/\ last.op = "delete_session"
        /\ last.ret = TRUE
        /\ last'.op = "create_session"
        /\ last'.sid = last.sid
        /\ last'.status = "ok")
          => get_messages_results(last.sid)' = {<<>>}]_vars

\* C5 witness: delete_session has removed an existing session together with
\* its message rows, and the session can be created again.
C5_Witness ==
    /\ last.op = "delete_session"
    /\ last.ret = TRUE
    /\ last.rows > 0
    /\ get_messages_results(last.sid) = {<<>>}
    /\ ENABLED create_session(last.sid)

\* C6: session_exists(id) is true right after a successful create_session(id)
\* and false right after delete_session(id).
C6_ExistsAfterCreateNotAfterDelete ==
    [][\A s \in SessionIds :
          /\ (last'.op = "create_session" /\ last'.sid = s /\ last'.status = "ok")
                 => session_exists_result(s)'
          /\ (last'.op = "delete_session" /\ last'.sid = s)
                 => ~session_exists_result(s)']_vars

\* C6 witness: a session that was created has been deleted (delete_session
\* returned True) and session_exists is false for it.
C6_Witness ==
    /\ last.op = "delete_session"
    /\ last.ret = TRUE
    /\ ~session_exists_result(last.sid)

\* C7: in every result list_sessions can return, each message_count equals the
\* length of every result get_messages can return for that session.
C7_CountMatchesMessages ==
    \A result \in list_sessions_results :
        \A i \in DOMAIN result :
            \A msgs \in get_messages_results(result[i].session_id) :
                result[i].message_count = Len(msgs)

\* C7 witness: list_sessions reports one session without messages and one with.
C7_Witness ==
    \E result \in list_sessions_results :
        \E i, j \in DOMAIN result :
            result[i].message_count = 0 /\ result[j].message_count > 0

\* The messages row a caller's add_message inserted.
RowOf(c) ==
    [id |-> loc[c].id, session_id |-> loc[c].sid, role |-> loc[c].role,
     content |-> loc[c].content, timestamp |-> loc[c].timestamp]

\* Caller c has returned from a successful add_message.
AddedOk(c) == pc[c] = "idle" /\ loc[c].op = "add_message" /\ loc[c].status = "ok"

\* C8: for a session that exists, the committed database never gains a message
\* row of the session without the session's updated_at becoming that row's
\* timestamp in the same step, and updated_at never changes without such a row.
C8_InsertAndUpdateAtomic ==
    [][\A s \in ConcSessionIds :
        LET new == MessageRows(s)' \ MessageRows(s)
        IN  SessionRows(s) # {} =>
              /\ new # {} =>
                    /\ SessionRows(s)' # {}
                    /\ \A x \in SessionRows(s)' : \E m \in new : x.updated_at = m.timestamp
              /\ (SessionRows(s)' # {} /\ SessionRows(s)' # SessionRows(s)) =>
                    \E m \in new : \A x \in SessionRows(s)' : x.updated_at = m.timestamp]_vars

\* C8 witness: an add_message has committed on an existing session: its row is
\* in messages and updated_at, no longer created_at, is the row's timestamp.
C8_Witness ==
    \E c \in Callers :
        /\ AddedOk(c)
        /\ RowOf(c) \in messages
        /\ \E x \in SessionRows(loc[c].sid) :
               x.updated_at = loc[c].timestamp /\ x.updated_at # x.created_at

\* C9: every add_message gets through its INSERT and its commit with success,
\* and its commit adds exactly its own row to the committed messages, whatever
\* another caller committed since the call began: no row is lost or replaced.
C9_NoLostUpdate ==
    [][\A c \in Callers :
        /\ (pc[c] = "am_insert" /\ pc'[c] # "am_insert") => pc'[c] = "am_update"
        /\ (pc[c] = "am_commit" /\ pc'[c] # "am_commit") =>
              /\ loc'[c].status = "ok"
              /\ RowOf(c) \notin messages
              /\ messages' = messages \cup {RowOf(c)}
              /\ \A r \in get_messages_results(loc[c].sid)' :
                     Len(r) = Cardinality(MessageRows(loc[c].sid)) + 1]_vars

\* C9 witness: two add_message calls on the same existing session ran
\* concurrently (one read the clock first, the other inserted first), both
\* returned with success and both rows are in the session's messages.
C9_Witness ==
    \E c, d \in Callers :
        /\ AddedOk(c) /\ AddedOk(d)
        /\ loc[c].sid = loc[d].sid
        /\ SessionRows(loc[c].sid) # {}
        /\ loc[c].timestamp < loc[d].timestamp
        /\ loc[c].id > loc[d].id
        /\ {RowOf(c), RowOf(d)} = MessageRows(loc[c].sid)

\* C10: when two add_message calls on an existing session have committed, c
\* before d, with different timestamps, and the session holds their two
\* messages, get_messages returns c's message and then d's, and the session's
\* updated_at is the timestamp of the last message returned.
C10_CommitOrder ==
    \A c, d \in Callers :
        (/\ AddedOk(c) /\ AddedOk(d)
         /\ loc[c].sid = loc[d].sid
         /\ loc[c].id < loc[d].id
         /\ loc[c].timestamp # loc[d].timestamp
         /\ SessionRows(loc[c].sid) # {}
         /\ MessageRows(loc[c].sid) = {RowOf(c), RowOf(d)})
        => \A r \in get_messages_results(loc[c].sid) :
              /\ r = <<MessageDict(RowOf(c)), MessageDict(RowOf(d))>>
              /\ \A x \in SessionRows(loc[c].sid) : x.updated_at = r[Len(r)].timestamp

\* C11: create_session for a session_id that has a sessions row raises
\* sqlite3.IntegrityError and leaves the sessions and messages tables as they
\* were (created_at, updated_at and the messages of the existing session
\* included); and after every step no two sessions rows have the same
\* session_id.
C11_DuplicateCreateFails ==
    [][/\ \A s \in SessionIds :
            (last'.op = "create_session" /\ last'.sid = s /\ SessionRows(s) # {})
                => /\ last'.status = "IntegrityError"
                   /\ sessions' = sessions
                   /\ messages' = messages
       /\ \A a, b \in sessions' : a.session_id = b.session_id => a = b]_vars

\* A duplicate create_session has just failed on a session that holds a message
\* and whose updated_at has moved on from its created_at.
C11_Witness ==
    /\ last.op = "create_session"
    /\ last.status = "IntegrityError"
    /\ MessageRows(last.sid) # {}
    /\ \E x \in SessionRows(last.sid) : x.updated_at # x.created_at

\* C12: start_chat leaves every session that chat_sessions already holds as it
\* is, with its created_at and its messages.
C12_StartKeepsSessions ==
    [][last'.op = "start_chat"
          => \A s \in DOMAIN chat_sessions :
                s \in DOMAIN chat_sessions' /\ chat_sessions'[s] = chat_sessions[s]]_vars

C14_UpdatedNotBeforeCreated ==
    \A x \in sessions : x.updated_at >= x.created_at

\* C15: the sessions of the database are the sessions the app.py handlers
\* serve, and for each of them get_messages returns exactly the history
\* get_chat_history returns.
C15_StorageIsRegistry ==
    /\ {x.session_id : x \in sessions} = DOMAIN chat_sessions
    /\ \A s \in DOMAIN chat_sessions :
          get_messages_results(s) = {get_chat_history_result(s)}

\* C16: get_messages has one possible result: the session's messages by
\* ascending timestamp, those with equal timestamps by ascending id (the
\* AUTOINCREMENT insertion number).
C16_TiesInInsertionOrder ==
    \A s \in SessionIds :
        get_messages_results(s) =
            {[i \in DOMAIN q |-> MessageDict(q[i])] :
                q \in {o \in OrderByTimestampAsc(MessageRows(s)) :
                          \A i, j \in DOMAIN o :
                              (i < j /\ o[i].timestamp = o[j].timestamp) => o[i].id < o[j].id}}

\* C17: across a step that removes no message of an existing session (only
\* delete_session removes messages), whatever get_messages could return before
\* the step is a prefix of something it can return after it.
C17_AppendOnly ==
    [][\A s \in ConcSessionIds :
        (session_exists_result(s) /\ MessageRows(s) \subseteq MessageRows(s)')
            => \A r \in get_messages_results(s) :
                  \E r2 \in get_messages_results(s)' :
                      /\ Len(r) <= Len(r2)
                      /\ \A i \in DOMAIN r : r[i] = r2[i]]_vars

\* C20: add_message and delete_session on a session leave the sessions rows and
\* the messages of every other session as they were, and session_exists,
\* get_messages, get_session and list_sessions leave both tables as they were.
C20_OtherSessionsUntouched ==
    [][/\ \A s \in SessionIds :
            (last'.op \in {"add_message", "delete_session"} /\ last'.sid = s)
                => \A x \in SessionIds \ {s} :
                      /\ SessionRows(x)' = SessionRows(x)
                      /\ MessageRows(x)' = MessageRows(x)
       /\ last'.op \in {"session_exists", "get_messages", "get_session", "list_sessions"}
            => (sessions' = sessions /\ messages' = messages)]_vars

\* An add_message on an existing session has just set its updated_at, while
\* another session, which holds a message, has an older updated_at.
C20_Witness ==
    /\ last.op = "add_message"
    /\ last.status = "ok"
    /\ \E x \in SessionRows(last.sid) : x.updated_at = last.ret.timestamp
    /\ \E x \in sessions :
          /\ x.session_id # last.sid
          /\ x.updated_at < last.ret.timestamp
          /\ MessageRows(x.session_id) # {}

\* C18: whenever no chat_with_space request is under way, the history of every
\* session of chat_sessions is a sequence of (user, assistant) pairs, each
\* assistant message the reply to the user message right before it.
C18_HistoryIsExchanges ==
    (\A c \in Callers : pc[c] \notin {"cw_get", "cw_user", "cw_reply"})
        => \A s \in DOMAIN chat_sessions :
              LET h == get_chat_history_result(s) IN
              /\ Len(h) % 2 = 0
              /\ \A i \in DOMAIN h :
                    IF i % 2 = 1
                    THEN h[i].role = "user"
                    ELSE h[i].role = "assistant" /\ h[i].content = Echo(h[i - 1].content)

\* C19: a delete_session request that has ended has ended with 200 or with
\* 404, whatever requests ran at the same time.
C19_DeleteEndsHandled ==
    \A c \in Callers :
        (pc[c] = "idle" /\ loc[c].op = "delete_session") => loc[c].status \in {"ok", "404"}

====
